---- MODULE Spec2Model ----
(***************************************************************************)
(* A model of the near-gas crate (src/src/lib.rs): the NearGas value type, *)
(* its unit constructors and accessors, checked and saturating arithmetic, *)
(* the serde string encoding and the FromStr parser.                       *)
(*                                                                         *)
(* A u64 is a sequence of 8 bytes, least significant first, so that the    *)
(* full 64-bit width is kept (TLC's own integers are 32 bits wide).  A     *)
(* string is a sequence of bytes, each written as a one-character string;  *)
(* the two bytes of a non-ASCII character are written "<C3>" and "<A9>".   *)
(***************************************************************************)
EXTENDS Integers, Sequences, FiniteSets, TLC

\* pc:    "start" (inputs drawn, nothing called), "constructed" (a constructor
\*        has returned the value in out), "serialized" (out holds the encoded
\*        string) or "done"
\* op:    the names of the operations called so far
\* input: the arguments of the call
\* out:   what the last call returned, or Panic when it aborted
VARIABLES pc, op, input, out

vars == <<pc, op, input, out>>

(***************************************************************************)
(* Bounds of the model.                                                    *)
(***************************************************************************)
\* the longest run of white space put before a parser input
MaxLead == 5
\* the longest run of white space put after a parser input
MaxTrail == 1
\* the longest run of zeros put in front of a fractional digit
MaxFracZeros == 13
\* the largest k for which 10^k and 10^k - 1 are encoded
MaxPow10 == 19

(***************************************************************************)
(* Helpers of the notation.                                                *)
(***************************************************************************)
\* the sequence f with its elements computed once (a function constructor is
\* computed again at every application)
AsSeq(f) == SubSeq(f, 1, Len(f))

Chars(s) == AsSeq([i \in 1..Len(s) |-> SubSeq(s, i, i)])

Some(v) == [tag |-> "Some", val |-> v]

None == [tag |-> "None"]

Ok(v) == [tag |-> "Ok", val |-> v]

Err(e) == [tag |-> "Err", err |-> e]

Panic == [tag |-> "Panic"]

\* a plain return value (of a function that returns no Option or Result)
Returned(v) == [tag |-> "Returned", val |-> v]

NoCall == [tag |-> "NoCall"]

(***************************************************************************)
(* u64: the primitive operations of the 64-bit unsigned integer, on bytes. *)
(***************************************************************************)
U64Zero == <<0, 0, 0, 0, 0, 0, 0, 0>>

U64Max == <<255, 255, 255, 255, 255, 255, 255, 255>>

\* the u64 of a number below 2^16
U64Small(n) == <<n % 256, (n \div 256) % 256, 0, 0, 0, 0, 0, 0>>

RECURSIVE AddLimbs(_, _, _, _)
AddLimbs(a, b, c, acc) ==
    LET i == Len(acc) + 1
    IN  IF i > Len(a) THEN [val |-> acc, carry |-> c]
        ELSE LET t == a[i] + b[i] + c
             IN  AddLimbs(a, b, t \div 256, Append(acc, t % 256))

RECURSIVE SubLimbs(_, _, _, _)
SubLimbs(a, b, c, acc) ==
    LET i == Len(acc) + 1
    IN  IF i > Len(a) THEN [val |-> acc, borrow |-> c]
        ELSE LET t == a[i] - b[i] - c
             IN  SubLimbs(a, b, IF t < 0 THEN 1 ELSE 0, Append(acc, (t + 256) % 256))

RECURSIVE ColSum(_, _, _, _)
ColSum(a, b, k, i) ==
    IF i > 8 \/ i > k THEN 0
    ELSE (IF k + 1 - i <= 8 THEN a[i] * b[k + 1 - i] ELSE 0) + ColSum(a, b, k, i + 1)

RECURSIVE MulLimbs(_, _, _, _)
MulLimbs(a, b, c, acc) ==
    LET k == Len(acc) + 1
    IN  IF k > 16 THEN acc
        ELSE LET t == ColSum(a, b, k, 1) + c
             IN  MulLimbs(a, b, t \div 256, Append(acc, t % 256))

u64_overflowing_add(a, b) == AddLimbs(a, b, 0, <<>>)

u64_overflowing_sub(a, b) == SubLimbs(a, b, 0, <<>>)

u64_widening_mul(a, b) ==
    LET p == MulLimbs(a, b, 0, <<>>)
    IN  [lo |-> SubSeq(p, 1, 8), hi |-> SubSeq(p, 9, 16)]

RECURSIVE LessFrom(_, _, _)
LessFrom(a, b, i) ==
    IF i = 0 THEN FALSE
    ELSE IF a[i] # b[i] THEN a[i] < b[i]
    ELSE LessFrom(a, b, i - 1)

u64_lt(a, b) == LessFrom(a, b, 8)

Bit(a, i) == (a[(i - 1) \div 8 + 1] \div (2 ^ ((i - 1) % 8))) % 2

\* one step of binary long division: bit s.i of a is brought down
DivStep(a, b, s) ==
    LET r2 == AddLimbs(s.rem, s.rem, Bit(a, s.i), <<>>)
        ge == r2.carry = 1 \/ ~u64_lt(r2.val, b)
        r3 == IF ge THEN SubLimbs(r2.val, b, 0, <<>>).val ELSE r2.val
        q2 == AddLimbs(s.quot, s.quot, IF ge THEN 1 ELSE 0, <<>>).val
    IN  [i |-> s.i - 1, quot |-> q2, rem |-> r3]

RECURSIVE DivBits(_, _, _, _)
DivBits(a, b, lo, s) == IF s.i = lo THEN s ELSE DivBits(a, b, lo, DivStep(a, b, s))

RECURSIVE DivBytes(_, _, _)
DivBytes(a, b, s) == IF s.i = 0 THEN s ELSE DivBytes(a, b, DivBits(a, b, s.i - 8, s))

\* long division by a divisor d below 2^16, a byte of the dividend at a time
RECURSIVE DivShort(_, _, _)
DivShort(a, d, s) ==
    IF s.i = 0 THEN [i |-> 0, quot |-> s.quot, rem |-> U64Small(s.rem)]
    ELSE LET t == s.rem * 256 + a[s.i]
         IN  DivShort(a, d, [i |-> s.i - 1, quot |-> <<t \div d>> \o s.quot, rem |-> t % d])

\* a / b and a % b for b # 0
u64_div_rem(a, b) ==
    IF \A i \in 3..8 : b[i] = 0
    THEN DivShort(a, b[1] + 256 * b[2], [i |-> 8, quot |-> <<>>, rem |-> 0])
    ELSE DivBytes(a, b, [i |-> 64, quot |-> U64Zero, rem |-> U64Zero])

u64_checked_add(a, b) ==
    LET r == u64_overflowing_add(a, b)
    IN  IF r.carry = 1 THEN None ELSE Some(r.val)

u64_checked_sub(a, b) ==
    LET r == u64_overflowing_sub(a, b)
    IN  IF r.borrow = 1 THEN None ELSE Some(r.val)

u64_checked_mul(a, b) ==
    LET r == u64_widening_mul(a, b)
    IN  IF r.hi # U64Zero THEN None ELSE Some(r.lo)

u64_checked_div(a, b) ==
    IF b = U64Zero THEN None ELSE Some(u64_div_rem(a, b).quot)

u64_saturating_add(a, b) ==
    LET r == u64_overflowing_add(a, b)
    IN  IF r.carry = 1 THEN U64Max ELSE r.val

u64_saturating_sub(a, b) ==
    LET r == u64_overflowing_sub(a, b)
    IN  IF r.borrow = 1 THEN U64Zero ELSE r.val

u64_saturating_mul(a, b) ==
    LET r == u64_widening_mul(a, b)
    IN  IF r.hi # U64Zero THEN U64Max ELSE r.lo

\* u64::saturating_div is plain division; it panics on a zero divisor
u64_saturating_div(a, b) == u64_div_rem(a, b).quot

u64_wrapping_mul(a, b) == u64_widening_mul(a, b).lo

RECURSIVE Pow10Loop(_)
Pow10Loop(s) ==
    IF s.k = 0 THEN s.acc
    ELSE Pow10Loop([k |-> s.k - 1, acc |-> u64_wrapping_mul(s.acc, U64Small(10))])

\* 10u64.pow(k)
u64_pow10(k) == Pow10Loop([k |-> k, acc |-> U64Small(1)])

ONE_TERA_GAS == u64_pow10(12)

ONE_GIGA_GAS == u64_pow10(9)

\* the built-in `*` of u64: wraps when the build has overflow checks off (the
\* release profile) and panics when it has them on (the debug profile)
u64_mul(a, b, overflow_checks) ==
    LET r == u64_widening_mul(a, b)
    IN  IF r.hi # U64Zero /\ overflow_checks THEN Panic ELSE Returned(r.lo)

(***************************************************************************)
(* str::parse::<u64>() of the standard library.                            *)
(***************************************************************************)
Digits == Chars("0123456789")

IsDigit(c) == \E d \in 1..10 : Digits[d] = c

DigitVal(c) == (CHOOSE d \in 1..10 : Digits[d] = c) - 1

\* one character of the digit loop: acc = acc.checked_mul(10)?.checked_add(d)?
ParseStep(s, st) ==
    LET c == s[st.i]
        m == u64_checked_mul(st.acc, U64Small(10))
        r == u64_checked_add(m.val, U64Small(DigitVal(c)))
    IN  IF ~IsDigit(c) THEN [i |-> st.i, acc |-> st.acc, err |-> "InvalidDigit"]
        ELSE IF m.tag = "None" THEN [i |-> st.i, acc |-> st.acc, err |-> "PosOverflow"]
        ELSE IF r.tag = "None" THEN [i |-> st.i, acc |-> st.acc, err |-> "PosOverflow"]
        ELSE [i |-> st.i + 1, acc |-> r.val, err |-> "none"]

RECURSIVE ParseLoop(_, _)
ParseLoop(s, st) ==
    IF st.err # "none" THEN Err(st.err)
    ELSE IF st.i > Len(s) THEN Ok(st.acc)
    ELSE ParseLoop(s, ParseStep(s, st))

u64_from_str(s) ==
    IF Len(s) = 0 THEN Err("Empty")
    ELSE IF s = <<"+">> \/ s = <<"-">> THEN Err("InvalidDigit")
    ELSE ParseLoop(s, [i |-> IF s[1] = "+" THEN 2 ELSE 1, acc |-> U64Zero, err |-> "none"])

\* the u64 written as the decimal text d
U(d) == u64_from_str(Chars(d)).val

(***************************************************************************)
(* NearGas: constructors, accessors, checked and saturating arithmetic.    *)
(***************************************************************************)
from_gas(inner) == [inner |-> inner]

from_tgas_wrong_scale(inner, overflow_checks) ==
    LET r == u64_mul(inner, ONE_GIGA_GAS, overflow_checks)
    IN  IF r.tag = "Panic" THEN Panic ELSE Returned([inner |-> r.val])

from_tgas(inner, overflow_checks) ==
    LET r == u64_mul(inner, ONE_TERA_GAS, overflow_checks)
    IN  IF r.tag = "Panic" THEN Panic ELSE Returned([inner |-> r.val])

from_ggas(inner, overflow_checks) ==
    LET r == u64_mul(inner, ONE_GIGA_GAS, overflow_checks)
    IN  IF r.tag = "Panic" THEN Panic ELSE Returned([inner |-> r.val])

as_gas(self) == self.inner

as_ggas(self) == u64_div_rem(self.inner, ONE_GIGA_GAS).quot

as_tgas(self) == u64_div_rem(self.inner, ONE_TERA_GAS).quot

\* Option::map(Self::from_gas)
MapFromGas(o) == IF o.tag = "Some" THEN Some(from_gas(o.val)) ELSE None

checked_add_wrapping(self, rhs) == Some(from_gas(u64_overflowing_add(as_gas(self), as_gas(rhs)).val))

checked_add(self, rhs) == MapFromGas(u64_checked_add(as_gas(self), as_gas(rhs)))

checked_sub(self, rhs) == MapFromGas(u64_checked_sub(as_gas(self), as_gas(rhs)))

checked_mul(self, rhs) == MapFromGas(u64_checked_mul(as_gas(self), rhs))

checked_div(self, rhs) == MapFromGas(u64_checked_div(as_gas(self), rhs))

saturating_add(self, rhs) == from_gas(u64_saturating_add(as_gas(self), as_gas(rhs)))

saturating_sub(self, rhs) == from_gas(u64_saturating_sub(as_gas(self), as_gas(rhs)))

saturating_mul(self, rhs) == from_gas(u64_saturating_mul(as_gas(self), rhs))

saturating_div_to_max(self, rhs) ==
    IF rhs = U64Zero THEN from_gas(U64Max)
    ELSE from_gas(u64_saturating_div(as_gas(self), rhs))

saturating_div(self, rhs) ==
    IF rhs = U64Zero THEN from_gas(U64Zero)
    ELSE from_gas(u64_saturating_div(as_gas(self), rhs))

(***************************************************************************)
(* Display for u64 and the serde encoding (feature near-serde).            *)
(***************************************************************************)
RECURSIVE ToStringLoop(_)
ToStringLoop(st) ==
    IF st.n = U64Zero THEN st.text
    ELSE LET d == u64_div_rem(st.n, U64Small(10))
         IN  ToStringLoop([n |-> d.quot, text |-> <<Digits[d.rem[1] + 1]>> \o st.text])

\* format!("{}", n)
u64_to_string(n) ==
    IF n = U64Zero THEN <<"0">> ELSE ToStringLoop([n |-> n, text |-> <<>>])

\* the length of the buffer serialize writes into
BufLen == 20

\* write!(w, "{}", self.inner) into buf of n bytes, then the text of the part written
WriteToBuf(self, n) ==
    LET text == u64_to_string(self.inner)
        buf == AsSeq([i \in 1..n |-> IF i <= Len(text) THEN text[i] ELSE "<00>"])
        remainder == n - Len(text)
        len == n - remainder
    IN  IF Len(text) > n THEN Err("Failed to serialize: failed to write whole buffer")
        ELSE Ok(SubSeq(buf, 1, len))

serialize_short_buffer(self) == WriteToBuf(self, BufLen - 1)

serialize(self) == WriteToBuf(self, BufLen)

deserialize(s) ==
    LET r == u64_from_str(s)
    IN  IF r.tag = "Ok" THEN Ok(from_gas(r.val)) ELSE Err(r.err)

(***************************************************************************)
(* Strings: trim, to_ascii_uppercase, find, split_at.                      *)
(***************************************************************************)
\* the white space of the model: the space and the tab
WhiteSpace == {" ", "\t"}

\* the bytes after the first of a multi-byte character
Continuation == {"<A9>"}

Lower == Chars("abcdefghijklmnopqrstuvwxyz")

Upper == Chars("ABCDEFGHIJKLMNOPQRSTUVWXYZ")

is_ascii_alphabetic(c) == \E i \in 1..26 : Lower[i] = c \/ Upper[i] = c

UpperOf(c) ==
    IF \E i \in 1..26 : Lower[i] = c THEN Upper[CHOOSE i \in 1..26 : Lower[i] = c] ELSE c

to_ascii_uppercase(s) == AsSeq([i \in 1..Len(s) |-> UpperOf(s[i])])

trim(s) ==
    LET keep == {i \in 1..Len(s) : s[i] \notin WhiteSpace}
    IN  IF keep = {} THEN <<>>
        ELSE SubSeq(s, CHOOSE i \in keep : \A j \in keep : i <= j,
                       CHOOSE i \in keep : \A j \in keep : j <= i)

\* s.find(|c| c.is_ascii_alphabetic()): the byte offset of the first match
find_ascii_alphabetic(s) ==
    LET hits == {i \in 1..Len(s) : is_ascii_alphabetic(s[i])}
    IN  IF hits = {} THEN None
        ELSE Some((CHOOSE i \in hits : \A j \in hits : i <= j) - 1)

is_char_boundary(s, mid) ==
    \/ mid = 0
    \/ mid = Len(s)
    \/ mid < Len(s) /\ s[mid + 1] \notin Continuation

\* str::split_at panics when mid is past the end or inside a character
split_at(s, mid) ==
    IF is_char_boundary(s, mid)
    THEN Returned([num |-> SubSeq(s, 1, mid), currency |-> SubSeq(s, mid + 1, Len(s))])
    ELSE Panic

(***************************************************************************)
(* utils::parse_decimal_number, the decimal scaler.  Its source is not     *)
(* part of src/; it is modelled from section 4.1 of the specification,     *)
(* whose grammar (digits ['.' digits]) and whose list of malformed         *)
(* literals (empty digit runs) are followed for "1." and ".5".             *)
(***************************************************************************)
InvalidNumber(s) == [kind |-> "InvalidNumber", lit |-> s]

OutOfRange == [kind |-> "OutOfRange"]

AllDigits(s) == Len(s) > 0 /\ \A i \in 1..Len(s) : IsDigit(s[i])

\* the number of trailing zeros of the decimal text of the scale factor
TrailingZeros(pref_const) ==
    LET text == u64_to_string(pref_const)
        nz == {i \in 1..Len(text) : text[i] # "0"}
    IN  Len(text) - (CHOOSE i \in nz : \A j \in nz : j <= i)

\* whole * pref_const + fract * 10^(zeros - len(fract)), every step checked
ScaleParts(whole, fract, fract_len, pref_const) ==
    LET zeros == TrailingZeros(pref_const)
        w == u64_checked_mul(whole, pref_const)
        f == u64_checked_mul(fract, u64_pow10(zeros - fract_len))
        sum == u64_checked_add(w.val, f.val)
    IN  IF fract_len > zeros THEN Err(OutOfRange)
        ELSE IF w.tag = "None" \/ f.tag = "None" THEN Err(OutOfRange)
        ELSE IF sum.tag = "None" THEN Err(OutOfRange)
        ELSE Ok(sum.val)

parse_decimal_number(s, pref_const) ==
    LET dots == {i \in 1..Len(s) : s[i] = "."}
        dot == CHOOSE i \in dots : \A j \in dots : i <= j
        whole == IF dots = {} THEN s ELSE SubSeq(s, 1, dot - 1)
        fract == IF dots = {} THEN <<>> ELSE SubSeq(s, dot + 1, Len(s))
        w == u64_from_str(whole)
        f == IF dots = {} THEN Ok(U64Zero) ELSE u64_from_str(fract)
    IN  IF Len(s) = 0 THEN Err(InvalidNumber(s))
        ELSE IF ~AllDigits(whole) THEN Err(InvalidNumber(s))
        ELSE IF dots # {} /\ ~AllDigits(fract) THEN Err(InvalidNumber(s))
        ELSE IF w.tag = "Err" \/ f.tag = "Err" THEN Err(OutOfRange)
        ELSE ScaleParts(w.val, f.val, Len(fract), pref_const)

(***************************************************************************)
(* impl FromStr for NearGas.                                               *)
(***************************************************************************)
IncorrectNumber(e) == [kind |-> "IncorrectNumber", err |-> e]

IncorrectUnit(s) == [kind |-> "IncorrectUnit", s |-> s]

\* parse_decimal_number(num.trim(), scale).map_err(IncorrectNumber), then from_gas
ScaleLiteral(num, scale) ==
    LET r == parse_decimal_number(trim(num), scale)
    IN  IF r.tag = "Err" THEN Err(IncorrectNumber(r.err)) ELSE Ok(from_gas(r.val))

\* upcase.split_at(s.find(..)), for an s in which find succeeds: the offset is
\* one of s, the text split is the trimmed and uppercased copy
SplitInput(s) ==
    LET upcase == to_ascii_uppercase(trim(s))
        mid == find_ascii_alphabetic(s)
    IN  split_at(upcase, mid.val)

from_str(s) ==
    LET mid == find_ascii_alphabetic(s)
        parts == SplitInput(s)
    IN  IF mid.tag = "None" THEN Err(IncorrectUnit(s))
        ELSE IF parts.tag = "Panic" THEN Panic
        ELSE IF parts.val.currency \in {Chars("TGAS"), Chars("TERAGAS")}
             THEN ScaleLiteral(parts.val.num, ONE_TERA_GAS)
        ELSE IF parts.val.currency \in {Chars("GIGAGAS"), Chars("GGAS")}
             THEN ScaleLiteral(parts.val.num, ONE_GIGA_GAS)
        ELSE Err(IncorrectUnit(s))

(***************************************************************************)
(* Natural numbers of any size, for stating what a result should be: a     *)
(* sequence of base-256 digits, least significant first, no leading zero.  *)
(***************************************************************************)
NatLimb(x, i) == IF i <= Len(x) THEN x[i] ELSE 0

RECURSIVE NatTrim(_)
NatTrim(x) ==
    IF Len(x) > 0 /\ x[Len(x)] = 0 THEN NatTrim(SubSeq(x, 1, Len(x) - 1))
    ELSE SubSeq(x, 1, Len(x))

RECURSIVE NatAddLoop(_, _, _, _)
NatAddLoop(x, y, c, acc) ==
    LET i == Len(acc) + 1
    IN  IF i > Len(x) /\ i > Len(y) THEN (IF c = 0 THEN acc ELSE Append(acc, c))
        ELSE LET t == NatLimb(x, i) + NatLimb(y, i) + c
             IN  NatAddLoop(x, y, t \div 256, Append(acc, t % 256))

NatAdd(x, y) == NatTrim(NatAddLoop(x, y, 0, <<>>))

\* x * d for a digit d < 256
RECURSIVE NatScaleLoop(_, _, _, _)
NatScaleLoop(x, d, c, acc) ==
    LET i == Len(acc) + 1
    IN  IF i > Len(x) THEN (IF c = 0 THEN acc ELSE Append(acc, c))
        ELSE LET t == x[i] * d + c
             IN  NatScaleLoop(x, d, t \div 256, Append(acc, t % 256))

NatScale(x, d) == NatTrim(NatScaleLoop(x, d, 0, <<>>))

\* x * 256^k
NatShift(x, k) == IF x = <<>> THEN x ELSE AsSeq([i \in 1..k |-> 0]) \o x

RECURSIVE NatMulLoop(_, _, _)
NatMulLoop(x, y, st) ==
    IF st.j > Len(y) THEN st.acc
    ELSE NatMulLoop(x, y, [j |-> st.j + 1,
                           acc |-> NatAdd(st.acc, NatShift(NatScale(x, y[st.j]), st.j - 1))])

NatMul(x, y) == NatMulLoop(x, y, [j |-> 1, acc |-> <<>>])

RECURSIVE NatLessFrom(_, _, _)
NatLessFrom(x, y, i) ==
    IF i = 0 THEN FALSE
    ELSE IF x[i] # y[i] THEN x[i] < y[i]
    ELSE NatLessFrom(x, y, i - 1)

NatLess(x, y) == IF Len(x) # Len(y) THEN Len(x) < Len(y) ELSE NatLessFrom(x, y, Len(x))

NatLeq(x, y) == ~NatLess(y, x)

\* 2^64 - 1
NatMax64 == <<255, 255, 255, 255, 255, 255, 255, 255>>

NatFits64(x) == NatLeq(x, NatMax64)

\* x mod 2^64
NatLow64(x) == NatTrim(AsSeq([i \in 1..8 |-> NatLimb(x, i)]))

RECURSIVE NatPow10Loop(_)
NatPow10Loop(st) ==
    IF st.k = 0 THEN st.acc
    ELSE NatPow10Loop([k |-> st.k - 1, acc |-> NatScale(st.acc, 10)])

NatPow10(k) == NatPow10Loop([k |-> k, acc |-> <<1>>])

\* the number a u64 holds
N(u) == NatTrim(u)

(***************************************************************************)
(* The arithmetic, constructors and accessors as a state machine: the      *)
(* operands and the build profile are drawn first, then one operation is   *)
(* called on them; an accessor may be called on what a constructor built.  *)
(***************************************************************************)
ArithPool ==
    { U(d) : d \in { "0", "1", "2", "3", "10", "11", "255", "256",
                     "1000000000", "1000000000000",
                     "18446744", "18446745", "18446744073", "18446744074",
                     "4294967296", "9223372036854775808",
                     "1844674407370955161", "1844674407370955162",
                     "18446744073709551612", "18446744073709551614",
                     "18446744073709551615" } }

InitArith ==
    /\ pc = "start"
    /\ op = <<>>
    /\ input \in [a : ArithPool, b : ArithPool, overflow_checks : BOOLEAN]
    /\ out = NoCall

Call(name, result, next) ==
    /\ pc = "start"
    /\ op' = <<name>>
    /\ out' = result
    /\ pc' = next
    /\ UNCHANGED input

IsArith == "a" \in DOMAIN input

FromGas ==
    /\ IsArith
    /\ Call("from_gas", Returned(from_gas(input.a)), "constructed")

FromGgas ==
    /\ IsArith
    /\ LET r == from_ggas(input.a, input.overflow_checks)
       IN  Call("from_ggas", r, IF r.tag = "Panic" THEN "done" ELSE "constructed")

FromTgas ==
    /\ IsArith
    /\ LET r == from_tgas(input.a, input.overflow_checks)
       IN  Call("from_tgas", r, IF r.tag = "Panic" THEN "done" ELSE "constructed")

Access(name, result) ==
    /\ pc = "constructed"
    /\ op' = Append(op, name)
    /\ out' = Returned(result)
    /\ pc' = "done"
    /\ UNCHANGED input

AsGas == Access("as_gas", as_gas(out.val))

AsGgas == Access("as_ggas", as_ggas(out.val))

AsTgas == Access("as_tgas", as_tgas(out.val))

CheckedAdd ==
    /\ IsArith
    /\ Call("checked_add", checked_add(from_gas(input.a), from_gas(input.b)), "done")

CheckedSub ==
    /\ IsArith
    /\ Call("checked_sub", checked_sub(from_gas(input.a), from_gas(input.b)), "done")

CheckedMul ==
    /\ IsArith
    /\ Call("checked_mul", checked_mul(from_gas(input.a), input.b), "done")

CheckedDiv ==
    /\ IsArith
    /\ Call("checked_div", checked_div(from_gas(input.a), input.b), "done")

SaturatingAdd ==
    /\ IsArith
    /\ Call("saturating_add",
            Returned(saturating_add(from_gas(input.a), from_gas(input.b))), "done")

SaturatingSub ==
    /\ IsArith
    /\ Call("saturating_sub",
            Returned(saturating_sub(from_gas(input.a), from_gas(input.b))), "done")

SaturatingMul ==
    /\ IsArith
    /\ Call("saturating_mul", Returned(saturating_mul(from_gas(input.a), input.b)), "done")

SaturatingDiv ==
    /\ IsArith
    /\ Call("saturating_div", Returned(saturating_div(from_gas(input.a), input.b)), "done")

NextArith ==
    \/ FromGas
    \/ FromGgas
    \/ FromTgas
    \/ AsGas
    \/ AsGgas
    \/ AsTgas
    \/ CheckedAdd
    \/ CheckedSub
    \/ CheckedMul
    \/ CheckedDiv
    \/ SaturatingAdd
    \/ SaturatingSub
    \/ SaturatingMul
    \/ SaturatingDiv

SpecArith == InitArith /\ [][NextArith]_vars

(***************************************************************************)
(* The serde encoding as a state machine: a magnitude is serialized and    *)
(* the string written is deserialized; a string from elsewhere is          *)
(* deserialized.                                                           *)
(***************************************************************************)
SerdePool ==
    ArithPool
    \cup { u64_pow10(k) : k \in 0..MaxPow10 }
    \cup { u64_overflowing_sub(u64_pow10(k), U64Small(1)).val : k \in 0..MaxPow10 }

TextPool ==
    { Chars(x) : x \in { "", "0", "8", "007", "+5", "-1", "+", "12a", " 1", "1.5", "1 TGas",
                         "18446744073709551615", "18446744073709551616",
                         "99999999999999999999" } }

InitSerde ==
    /\ pc = "start"
    /\ op = <<>>
    /\ input \in [m : SerdePool] \cup [text : TextPool]
    /\ out = NoCall

Serialize ==
    /\ "m" \in DOMAIN input
    /\ LET r == serialize(from_gas(input.m))
       IN  Call("serialize", r, IF r.tag = "Ok" THEN "serialized" ELSE "done")

Deserialize ==
    /\ pc = "serialized"
    /\ op' = Append(op, "deserialize")
    /\ out' = deserialize(out.val)
    /\ pc' = "done"
    /\ UNCHANGED input

DeserializeText ==
    /\ "text" \in DOMAIN input
    /\ Call("deserialize", deserialize(input.text), "done")

NextSerde ==
    \/ Serialize
    \/ Deserialize
    \/ DeserializeText

SpecSerde == InitSerde /\ [][NextSerde]_vars

(***************************************************************************)
(* The parser as a state machine: an input is drawn and from_str is called *)
(* on it.  An input is white space, a literal, a separator, a unit and     *)
(* white space again, each drawn from a pool.                              *)
(***************************************************************************)
PadOf(n) == AsSeq([i \in 1..n |-> IF i % 2 = 1 THEN " " ELSE "\t"])

Zeros(n) == AsSeq([i \in 1..n |-> "0"])

LiteralPool ==
    { Chars(x) : x \in { "", "0", "1", "1000", "18446744", "18446745",
                         "18446744073", "18446744074",
                         "18446744073709551615", "18446744073709551616",
                         "0.5", "0.50", "1.5", "1.000000000000", "0.000000001",
                         "18446744.073709551615", "18446744.073709551616",
                         "18446744073.709551615", "18446744073.709551616",
                         "18446744073709551616.5",
                         "-1", "-0", "+1", "1.1.1", "1. 0", ".", "1.", ".5",
                         "1,5" } }
    \cup { Chars("0.") \o Zeros(n) \o <<"5">> : n \in 0..MaxFracZeros }
    \cup { <<"1", "<C3>", "<A9>">> }

UnitPool ==
    { Chars(x) : x \in { "", "TGAS", "TGas", "tgas", "TERAGAS", "TeraGas",
                         "GGAS", "GGas", "ggas", "GIGAGAS", "GigaGas",
                         "pas", "a", "TGASX", "TGas 1", "GTGAS", "XXTGas" } }
    \cup { <<"a", "<C3>", "<A9>">>, <<"T", "G", "a", "s", "<C3>", "<A9>">> }

\* the input made of the five parts
Compose(lead, lit, sep, unit, trail) == PadOf(lead) \o lit \o sep \o unit \o PadOf(trail)

InitParse ==
    /\ pc = "start"
    /\ op = <<>>
    /\ \E lead \in 0..MaxLead, lit \in LiteralPool, sep \in {<<>>, <<" ">>},
          unit \in UnitPool, trail \in 0..MaxTrail :
            input = [s |-> Compose(lead, lit, sep, unit, trail)]
    /\ out = NoCall

FromStr ==
    /\ "s" \in DOMAIN input
    /\ Call("from_str", from_str(input.s), "done")

NextParse == FromStr

SpecParse == InitParse /\ [][NextParse]_vars

(***************************************************************************)
(* The whole crate.                                                        *)
(***************************************************************************)
Init == InitArith \/ InitSerde \/ InitParse

Next == NextArith \/ NextSerde \/ NextParse

Spec == Init /\ [][Next]_vars

(***************************************************************************)
(* Claims about the arithmetic, the constructors and the accessors.        *)
(***************************************************************************)
\* the magnitude of the NearGas an Option or a plain return holds
Mag(o) == N(as_gas(o.val))

\* q = floor(a / n), for n # 0
IsQuotient(q, a, n) ==
    /\ NatLeq(NatMul(q, n), a)
    /\ NatLess(a, NatAdd(NatMul(q, n), n))

C7_Results ==
    LET a == N(input.a)
        b == N(input.b)
    IN  /\ op = <<"checked_add">> =>
              IF NatFits64(NatAdd(a, b))
              THEN out.tag = "Some" /\ Mag(out) = NatAdd(a, b)
              ELSE out = None
        /\ op = <<"checked_sub">> =>
              IF NatLeq(b, a)
              THEN out.tag = "Some" /\ NatAdd(Mag(out), b) = a
              ELSE out = None
        /\ op = <<"checked_mul">> =>
              IF NatFits64(NatMul(a, b))
              THEN out.tag = "Some" /\ Mag(out) = NatMul(a, b)
              ELSE out = None
        /\ op = <<"checked_div">> =>
              IF b # <<>>
              THEN out.tag = "Some" /\ IsQuotient(Mag(out), a, b)
              ELSE out = None

\* C7: checked_add, checked_sub, checked_mul and checked_div return Some of the
\* exact sum, difference, product and floored quotient when it exists in
\* [0, 2^64-1] (the divisor not zero) and None otherwise, and no operation
\* changes its operands.
C7_CheckedExactOrNone == [](C7_Results) /\ [][input' = input]_vars

C7_Witness ==
    \/ /\ op = <<"checked_add">>
       /\ out = None
       /\ input.a # U64Max
       /\ input.b # U64Max
    \/ /\ op = <<"checked_mul">>
       /\ out.tag = "Some"
       /\ N(input.a) \notin {<<>>, <<1>>}
       /\ N(input.b) \notin {<<>>, <<1>>}

\* C8: saturating_add, saturating_sub and saturating_mul clamp the exact result
\* to [0, 2^64-1]; saturating_div is the floored quotient, and zero when the
\* divisor is zero; each agrees with the checked operation when that is Some.
C8_SaturatingClamps ==
    LET a == N(input.a)
        b == N(input.b)
        self == from_gas(input.a)
    IN  /\ op = <<"saturating_add">> =>
              /\ out.tag = "Returned"
              /\ Mag(out) = IF NatFits64(NatAdd(a, b)) THEN NatAdd(a, b) ELSE NatMax64
              /\ LET c == checked_add(self, from_gas(input.b))
                 IN  c.tag = "Some" => out.val = c.val
        /\ op = <<"saturating_sub">> =>
              /\ out.tag = "Returned"
              /\ IF NatLeq(b, a) THEN NatAdd(Mag(out), b) = a ELSE Mag(out) = <<>>
              /\ LET c == checked_sub(self, from_gas(input.b))
                 IN  c.tag = "Some" => out.val = c.val
        /\ op = <<"saturating_mul">> =>
              /\ out.tag = "Returned"
              /\ Mag(out) = IF NatFits64(NatMul(a, b)) THEN NatMul(a, b) ELSE NatMax64
              /\ LET c == checked_mul(self, input.b)
                 IN  c.tag = "Some" => out.val = c.val
        /\ op = <<"saturating_div">> =>
              /\ out.tag = "Returned"
              /\ IF b # <<>> THEN IsQuotient(Mag(out), a, b) ELSE Mag(out) = <<>>
              /\ LET c == checked_div(self, input.b)
                 IN  c.tag = "Some" => out.val = c.val

C8_Witness ==
    /\ op = <<"saturating_div">>
    /\ input.b = U64Zero
    /\ input.a # U64Zero
    /\ out = Returned(from_gas(U64Zero))

\* what a unit constructor of scale 10^k returns for n, in every build
ScalesWrapping(k) ==
    /\ out.tag = "Returned"
    /\ Mag(out) = NatLow64(NatMul(N(input.a), NatPow10(k)))

\* C10 as stated: from_tgas and from_ggas never fail and return n * 10^12 and
\* n * 10^9 modulo 2^64 for every n.
C10_NeverFails ==
    /\ op = <<"from_tgas">> => ScalesWrapping(12)
    /\ op = <<"from_ggas">> => ScalesWrapping(9)

\* what a unit constructor of scale 10^k returns for n, and what the accessor of
\* the same unit then returns
ScalesOrPanics(k, ctor, accessor) ==
    LET p == NatMul(N(input.a), NatPow10(k))
    IN  /\ op = <<ctor>> =>
              IF NatFits64(p) THEN out.tag = "Returned" /\ Mag(out) = p
              ELSE IF input.overflow_checks THEN out = Panic
              ELSE out.tag = "Returned" /\ Mag(out) = NatLow64(p)
        /\ op = <<ctor, accessor>> /\ NatFits64(p) => out = Returned(input.a)
        /\ op = <<ctor, "as_gas">> /\ NatFits64(p) => N(out.val) = p

\* C10, amended: when n * 10^12 (n * 10^9) fits in 64 bits, from_tgas (from_ggas)
\* returns exactly that and as_tgas (as_ggas) gives n back; when it does not
\* fit, the constructor returns the product modulo 2^64 in a build without
\* overflow checks and panics in a build with them.
C10_ScalesOrPanics ==
    /\ ScalesOrPanics(12, "from_tgas", "as_tgas")
    /\ ScalesOrPanics(9, "from_ggas", "as_ggas")

C10_Witness ==
    \/ /\ op = <<"from_tgas">>
       /\ ~NatFits64(NatMul(N(input.a), NatPow10(12)))
       /\ ~input.overflow_checks
       /\ out.tag = "Returned"
    \/ /\ op = <<"from_ggas", "as_ggas">>
       /\ out = Returned(input.a)
       /\ input.a # U64Zero

(***************************************************************************)
(* Decimal text, for stating what a text denotes.                          *)
(***************************************************************************)
DigitValue ==
    ("0" :> 0) @@ ("1" :> 1) @@ ("2" :> 2) @@ ("3" :> 3) @@ ("4" :> 4) @@
    ("5" :> 5) @@ ("6" :> 6) @@ ("7" :> 7) @@ ("8" :> 8) @@ ("9" :> 9)

\* a non-empty run of ASCII digits
DigitRun(d) == Len(d) > 0 /\ \A i \in 1..Len(d) : d[i] \in DOMAIN DigitValue

RECURSIVE NatOfDigitsLoop(_, _)
NatOfDigitsLoop(d, st) ==
    IF st.i > Len(d) THEN st.acc
    ELSE NatOfDigitsLoop(d, [i |-> st.i + 1,
                             acc |-> NatAdd(NatScale(st.acc, 10), NatTrim(<<DigitValue[d[st.i]]>>))])

\* the number a run of digits denotes
NatOfDigits(d) == NatOfDigitsLoop(d, [i |-> 1, acc |-> <<>>])

(***************************************************************************)
(* Claims about the serde encoding.                                        *)
(***************************************************************************)
\* C9: serializing from_gas(m) succeeds with the decimal digits of m (at most
\* 20, no sign, no unit, no leading zero but for "0"), and deserializing that
\* string gives a NearGas of magnitude m.
C9_EncodingRoundTrips ==
    /\ op = <<"serialize">> =>
          /\ out.tag = "Ok"
          /\ DigitRun(out.val)
          /\ Len(out.val) <= 20
          /\ Len(out.val) > 1 => out.val[1] # "0"
          /\ NatOfDigits(out.val) = N(input.m)
    /\ op = <<"serialize", "deserialize">> =>
          /\ out.tag = "Ok"
          /\ as_gas(out.val) = input.m

C9_Witness ==
    /\ op = <<"serialize", "deserialize">>
    /\ input.m = U64Max
    /\ out = Ok(from_gas(U64Max))

(***************************************************************************)
(* The parts of a parser input, as the documentation of the parser names   *)
(* them: the literal is the trimmed text before the first ASCII letter of  *)
(* the trimmed input, the suffix is the uppercased text from that letter.  *)
(***************************************************************************)
HasLetter(s) == \E i \in 1..Len(s) : is_ascii_alphabetic(s[i])

FirstLetter(s) ==
    CHOOSE i \in 1..Len(s) :
        is_ascii_alphabetic(s[i]) /\ \A j \in 1..(i - 1) : ~is_ascii_alphabetic(s[j])

LiteralOf(s) == LET core == trim(s) IN trim(SubSeq(core, 1, FirstLetter(core) - 1))

SuffixOf(s) == LET core == trim(s) IN to_ascii_uppercase(SubSeq(core, FirstLetter(core), Len(core)))

TeraTokens == {Chars("TGAS"), Chars("TERAGAS")}

GigaTokens == {Chars("GGAS"), Chars("GIGAGAS")}

Recognized(s) == HasLetter(s) /\ SuffixOf(s) \in TeraTokens \cup GigaTokens

\* k, for the scale 10^k of the unit of s
ScaleDigits(s) == IF SuffixOf(s) \in TeraTokens THEN 12 ELSE 9

DotsOf(l) == {i \in 1..Len(l) : l[i] = "."}

WholeOf(l) == IF DotsOf(l) = {} THEN l ELSE SubSeq(l, 1, (CHOOSE i \in DotsOf(l) : TRUE) - 1)

FractOf(l) == IF DotsOf(l) = {} THEN <<>> ELSE SubSeq(l, (CHOOSE i \in DotsOf(l) : TRUE) + 1, Len(l))

\* digits '.' digits
IsDecimal(l) == Cardinality(DotsOf(l)) = 1 /\ DigitRun(WholeOf(l)) /\ DigitRun(FractOf(l))

\* digits, or digits '.' digits
WellFormed(l) == (DotsOf(l) = {} /\ DigitRun(l)) \/ IsDecimal(l)

\* W * 10^k + F * 10^(k - len(F)) for a well-formed literal with len(F) <= k
ExactValue(l, k) ==
    NatAdd(NatMul(NatOfDigits(WholeOf(l)), NatPow10(k)),
           NatMul(NatOfDigits(FractOf(l)), NatPow10(k - Len(FractOf(l)))))

IsIncorrectNumber(o) == o.tag = "Err" /\ o.err.kind = "IncorrectNumber"

Parsed == op = <<"from_str">>

\* the input does not begin with white space
Unpadded == Len(input.s) = 0 \/ input.s[1] \notin WhiteSpace

(***************************************************************************)
(* Claims about the parser.                                                *)
(***************************************************************************)
WhitespaceIgnored ==
    /\ LET core == from_str(trim(input.s))
       IN  core.tag = "Ok" => out = core
    /\ Recognized(input.s) =>
          LET parts == SplitInput(input.s)
          IN  /\ parts.tag = "Returned"
              /\ trim(parts.val.num) = LiteralOf(input.s)
              /\ parts.val.currency = SuffixOf(input.s)

\* C1: from_str ignores the white space around the input and the case of the
\* unit: it returns what it returns for the trimmed input when that succeeds,
\* the literal handed to the scaler is the trimmed text before the first ASCII
\* letter and the suffix is the uppercased text from that letter onward.
C1_WhitespaceIgnored == Parsed => WhitespaceIgnored

\* C1 on the inputs with no leading white space
C1_OnUnpadded == Parsed /\ Unpadded => WhitespaceIgnored

\* C2: from_str returns Ok or one of the errors IncorrectUnit and
\* IncorrectNumber for every input; it never panics.
C2_AlwaysReturns ==
    Parsed =>
        \/ out.tag = "Ok"
        \/ out.tag = "Err" /\ out.err.kind \in {"IncorrectUnit", "IncorrectNumber"}

\* C2 on the inputs with no leading white space
C2_OnUnpadded == Parsed /\ Unpadded => C2_AlwaysReturns

UnitRejected == ~Recognized(input.s) => out = Err(IncorrectUnit(input.s))

\* C3: an input with no ASCII letter, or whose uppercased text from the first
\* ASCII letter is none of TGAS, TERAGAS, GGAS, GIGAGAS, fails with
\* IncorrectUnit carrying the input unchanged, whatever the literal is.
C3_UnitRejected == Parsed => UnitRejected

\* C3 on the inputs with no leading white space
C3_OnUnpadded == Parsed /\ Unpadded => UnitRejected

ExactOrError ==
    LET l == LiteralOf(input.s)
        k == ScaleDigits(input.s)
    IN  Recognized(input.s) /\ WellFormed(l) /\ Len(FractOf(l)) <= k =>
            IF NatFits64(ExactValue(l, k))
            THEN out.tag = "Ok" /\ N(as_gas(out.val)) = ExactValue(l, k)
            ELSE IsIncorrectNumber(out)

\* C4: for a literal W or W.F of digits with a recognized unit of scale 10^k and
\* len(F) <= k, from_str returns Ok of W * 10^k + F * 10^(k - len(F)) when
\* that is at most 2^64-1 and an IncorrectNumber error when it is not.
C4_ExactOrError == Parsed => ExactOrError

\* C4 on the inputs with no leading white space
C4_OnUnpadded == Parsed /\ Unpadded => ExactOrError

PrecisionRejected ==
    LET l == LiteralOf(input.s)
        k == ScaleDigits(input.s)
    IN  Recognized(input.s) /\ IsDecimal(l) =>
            /\ Len(FractOf(l)) > k => IsIncorrectNumber(out)
            /\ Len(FractOf(l)) <= k /\ NatFits64(ExactValue(l, k)) => out.tag = "Ok"

\* C5: with a recognized unit of scale 10^k, a fractional part of more than k
\* digits fails with an IncorrectNumber error, and one of at most k digits is
\* never rejected for its precision.
C5_PrecisionRejected == Parsed => PrecisionRejected

\* C5 on the inputs with no leading white space
C5_OnUnpadded == Parsed /\ Unpadded => PrecisionRejected

MalformedRejected ==
    LET l == LiteralOf(input.s)
    IN  Recognized(input.s) /\ ~WellFormed(l) =>
            out = Err(IncorrectNumber(InvalidNumber(l)))

\* C6: with a recognized unit, a literal that is empty or is not digits with at
\* most one dot between two runs of digits fails with
\* IncorrectNumber(InvalidNumber(lit)), lit the trimmed text before the unit.
C6_MalformedRejected == Parsed => MalformedRejected

\* C6 on the inputs with no leading white space
C6_OnUnpadded == Parsed /\ Unpadded => MalformedRejected

====
